---- MODULE Spec2Model ----
(***************************************************************************)
(* A model of the deku attribute-driven binary codec.                      *)
(*                                                                         *)
(* src/src/attributes.rs documents the #[deku] attributes and carries the  *)
(* doctests that pin their behaviour.  The schemas, the expressions        *)
(* attached to fields, the input bytes and the asserted results below are  *)
(* translated from those doctests.  The engine that interprets a schema    *)
(* (bit stream, scalar codec, field evaluator, container codec, enum       *)
(* dispatcher, update pass) lives outside that file; it is written here    *)
(* from the design text, and agrees with the doctests modelled             *)
(* (DoctestsAgree).  The attributes map, reader/writer, ctx with arguments *)
(* of the caller's own, ctx_default and the top-level id are left out.     *)
(***************************************************************************)
EXTENDS Integers, Sequences, FiniteSets, TLC

VARIABLES
    schema,     \* name of the schema the caller decodes with
    platform,   \* byte order of the build target: "little" or "big"
    input,      \* the caller's byte buffer
    start,      \* bit offset at which the current decode call began
    pos,        \* read cursor, in bits, of the current decode call
    pc,         \* ready, decoding, decoded, encoding, encoded, failed
    fidx,       \* index of the next field of the container to evaluate
    variant,    \* index of the matched enum variant (0 for a struct)
    disc,       \* discriminant read by the enum dispatcher (<<>> when none)
    val,        \* the in-memory value: a record of the fields decoded so far
    rest,       \* position returned by decode: <<p>>, or <<>> when none
    err,        \* error kind returned ("" when none)
    consumed,   \* bits consumed by each field of the current decode call
    out,        \* bits written so far by the current encode call
    emitted,    \* bits emitted by each field of the current encode call
    outBytes,   \* the byte vector returned by encode
    lastOp,     \* the last operation that made or changed the value
    touched,    \* the value was changed by the caller since it was decoded
    pushes,     \* elements the caller appended to the value's sequence
    updates,    \* update() calls since the value was decoded or pushed to
    records     \* decode calls made on this buffer

vars == <<schema, platform, input, start, pos, pc, fidx, variant, disc, val,
          rest, err, consumed, out, emitted, outBytes, lastOp, touched,
          pushes, updates, records>>

\* ---------------------------------------------------------------- bounds

\* Longest enumerated input buffer, in bytes (the doctests' own inputs are
\* added to the enumeration whatever their length).
MaxLen == 3

\* Most elements a caller appends to a decoded sequence.
MaxPush == 2

\* Most update() calls a caller makes in a row.
MaxUpdates == 2

\* Most consecutive records decoded from one buffer.
MaxRecords == 3

\* Byte values the enumerated inputs are built from.
ByteVals == {1, 2, 171, 255}

\* Values a caller appends to a decoded sequence.
PushVals == {255}

\* ------------------------------------------------------------- BitStream

RECURSIVE BitsToNat(_)
\* The unsigned integer a run of bits spells, most significant bit first.
BitsToNat(bs) ==
    IF bs = <<>> THEN 0
    ELSE 2 * BitsToNat(SubSeq(bs, 1, Len(bs) - 1)) + bs[Len(bs)]

\* The low n bits of v, most significant bit first.
NatToBits(v, n) == [i \in 1..n |-> (v \div (2 ^ (n - i))) % 2]

RECURSIVE BytesToBits(_)
\* The bit sequence backing a byte buffer, each byte MSB first.
BytesToBits(bytes) ==
    IF bytes = <<>> THEN <<>>
    ELSE NatToBits(bytes[1], 8) \o BytesToBits(Tail(bytes))

\* Zero bits that fill a bit sequence up to a whole number of bytes.
Padding(bs) == [i \in 1..((8 - (Len(bs) % 8)) % 8) |-> 0]

\* The bytes of a bit sequence, its last byte padded with zero bits.
BitsToBytes(bs) ==
    LET full == bs \o Padding(bs)
    IN  [i \in 1..(Len(full) \div 8) |->
            BitsToNat(SubSeq(full, 8 * (i - 1) + 1, 8 * i))]

\* read_bits(n) at bit offset p: fails when fewer than n bits remain.
ReadBits(bits, p, n) ==
    IF p + n > Len(bits)
    THEN [ok |-> FALSE, v |-> 0, p |-> p, e |-> "InsufficientData"]
    ELSE [ok |-> TRUE, v |-> BitsToNat(SubSeq(bits, p + 1, p + n)),
          p |-> p + n, e |-> ""]

\* ---------------------------------------------------------- Scalar Codec

RECURSIVE SwapBytes(_, _)
\* v, a value of nb bytes, with the order of its bytes reversed.
SwapBytes(v, nb) ==
    IF nb <= 1 THEN v
    ELSE (v % 256) * (256 ^ (nb - 1)) + SwapBytes(v \div 256, nb - 1)

\* Byte order applies to widths that are whole bytes; narrower or ragged
\* widths are one unsigned integer, never reordered.
Reorders(width, endian) == width % 8 = 0 /\ width > 8 /\ endian = "little"

\* decode_scalar: width bits at p, reassembled in the requested byte order.
ReadScalar(bits, p, width, endian) ==
    LET r == ReadBits(bits, p, width)
    IN  IF r.ok /\ Reorders(width, endian)
        THEN [r EXCEPT !.v = SwapBytes(r.v, width \div 8)]
        ELSE r

\* encode_scalar: the inverse; a value that does not fit fails.
WriteScalar(v, width, endian) ==
    IF v >= 2 ^ width
    THEN [ok |-> FALSE, bits |-> <<>>, e |-> "ValueOverflow"]
    ELSE [ok |-> TRUE,
          bits |-> NatToBits(IF Reorders(width, endian)
                             THEN SwapBytes(v, width \div 8) ELSE v, width),
          e |-> ""]

\* ------------------------------------------------- schemas of the doctests

\* A field with no attribute: natural width, inherited byte order.
Field(name, ty) ==
    [name |-> name, ty |-> ty, bits |-> 0, endian |-> "none", skip |-> FALSE,
     cond |-> "none", default |-> "none", count |-> "none", update |-> "none"]

\* A container: an ordered field list and its top-level endian.
Struct(endian, fields) ==
    [kind |-> "struct", endian |-> endian, fields |-> fields,
     idbits |-> 0, variants |-> <<>>]

\* An enum: the discriminant's width and the ordered variants.
Enum(endian, idbits, variants) ==
    [kind |-> "enum", endian |-> endian, fields |-> <<>>,
     idbits |-> idbits, variants |-> variants]

\* A variant with id = "...": matches exactly that value.
VariantId(id, fields) ==
    [ids |-> {id}, catchall |-> FALSE, store |-> "", fields |-> fields]

\* A variant with id_pat = "lo..=hi": its field `store` keeps the value.
VariantPat(lo, hi, store, fields) ==
    [ids |-> lo..hi, catchall |-> FALSE, store |-> store, fields |-> fields]

\* A variant with neither: the catch-all; its field `store` keeps the value.
VariantCatchAll(store, fields) ==
    [ids |-> {}, catchall |-> TRUE, store |-> store, fields |-> fields]

\* The endian doctest's schema with the field-level override left out.
EndianDekuTestNoOverride ==
    Struct("none",
        << Field("field_be", "u16"), Field("field_default", "u16") >>)

\* endian: field-level override, no top-level endian.
EndianDekuTest ==
    Struct("none",
        << [Field("field_be", "u16") EXCEPT !.endian = "big"],
           Field("field_default", "u16") >>)

\* The sub-type without its endian parameter: its field falls back to the
\* target's byte order.
ChildNoEndianParam == Struct("none", << Field("field_a", "u16") >>)

\* endian: the sub-type that takes its endian from the context.
Child == Struct("ctx", << Field("field_a", "u16") >>)

\* endian: top-level little, a field-level override and a sub-type.
EndianCtxDekuTest ==
    Struct("little",
        << [Field("field_be", "u16") EXCEPT !.endian = "big"],
           Field("field_default", "u16"),
           Field("field_child", "Child") >>)

\* The bits doctest's schema with field_b's bits attribute left out.
BitsDekuTestNoBits ==
    Struct("none",
        << [Field("field_a", "u8") EXCEPT !.bits = 2],
           Field("field_b", "u8"),
           Field("field_c", "u8") >>)

\* bits: fields of 2, 6 and 8 bits.
BitsDekuTest ==
    Struct("none",
        << [Field("field_a", "u8") EXCEPT !.bits = 2],
           [Field("field_b", "u8") EXCEPT !.bits = 6],
           Field("field_c", "u8") >>)

\* bytes: a u32 held in 2 bytes.
BytesDekuTest ==
    Struct("none",
        << [Field("field_a", "u32") EXCEPT !.bits = 16],
           Field("field_b", "u8") >>)

\* count / update: a count byte and the sequence it counts.
CountDekuTest ==
    Struct("none",
        << [Field("count", "u8") EXCEPT !.update = "self.items.len()"],
           [Field("items", "Vec<u8>") EXCEPT !.count = "count"] >>)

\* skip: a field that never touches the stream.
SkipDekuTest ==
    Struct("none",
        << Field("field_a", "u8"),
           [Field("field_b", "Option<u8>") EXCEPT !.skip = TRUE],
           Field("field_c", "u8") >>)

\* The cond doctest's schema with field_c's default left out.
CondDekuTestNoDefault ==
    Struct("none",
        << Field("field_a", "u8"),
           [Field("field_b", "Option<u8>") EXCEPT !.cond = "*field_a == 0x01"],
           [Field("field_c", "Option<u8>") EXCEPT
                !.cond = "*field_b == Some(0xFF)"],
           [Field("field_d", "Option<u8>") EXCEPT !.skip = TRUE,
                !.cond = "*field_a == 0x01", !.default = "Some(0x06)"] >>)

\* The cond doctest's schema with field_d's cond left out: skip alone.
CondDekuTestSkipAlways ==
    Struct("none",
        << Field("field_a", "u8"),
           [Field("field_b", "Option<u8>") EXCEPT !.cond = "*field_a == 0x01"],
           [Field("field_c", "Option<u8>") EXCEPT
                !.cond = "*field_b == Some(0xFF)", !.default = "Some(0x05)"],
           [Field("field_d", "Option<u8>") EXCEPT !.skip = TRUE,
                !.default = "Some(0x06)"] >>)

\* cond: conditional fields, one with a default, one paired with skip.
CondDekuTest ==
    Struct("none",
        << Field("field_a", "u8"),
           [Field("field_b", "Option<u8>") EXCEPT !.cond = "*field_a == 0x01"],
           [Field("field_c", "Option<u8>") EXCEPT
                !.cond = "*field_b == Some(0xFF)", !.default = "Some(0x05)"],
           [Field("field_d", "Option<u8>") EXCEPT !.skip = TRUE,
                !.cond = "*field_a == 0x01", !.default = "Some(0x06)"] >>)

\* default: a skipped field defaulted from an earlier field.
DefaultDekuTest ==
    Struct("none",
        << Field("field_a", "u8"),
           [Field("field_b", "Option<u8>") EXCEPT !.skip = TRUE,
                !.default = "Some(*field_a)"],
           Field("field_c", "u8") >>)

\* The id doctest's schema with VariantB given id 0x03 instead of 0x02.
IdDekuTestWrongId ==
    Enum("none", 8,
        << VariantId(1, << Field("0", "u8") >>),
           VariantId(3, << Field("0", "u8"), Field("1", "u16") >>),
           VariantCatchAll("type_", << Field("type_", "u8") >>) >>)

\* id (variant): two ids and a catch-all, discriminant of type u8.
IdDekuTest ==
    Enum("none", 8,
        << VariantId(1, << Field("0", "u8") >>),
           VariantId(2, << Field("0", "u8"), Field("1", "u16") >>),
           VariantCatchAll("type_", << Field("type_", "u8") >>) >>)

\* The id_pat doctest's schema whose VariantB has no room for what it matched:
\* its field is an ordinary one, read after the discriminant.
IdPatDekuTestNoStore ==
    Enum("none", 8,
        << VariantId(1, << Field("0", "u8") >>),
           VariantPat(2, 6, "", << Field("id", "u8") >>) >>)

\* id_pat: an id and a pattern variant that stores what it matched.
IdPatDekuTest ==
    Enum("none", 8,
        << VariantId(1, << Field("0", "u8") >>),
           VariantPat(2, 6, "id", << Field("id", "u8") >>) >>)

\* enum bits: a 4-bit discriminant followed by a 4-bit field.
EnumBitsDekuTest ==
    Enum("none", 4,
        << VariantId(9, << [Field("0", "u8") EXCEPT !.bits = 4],
                           Field("1", "u8") >>) >>)

\* enum bytes: a u32 discriminant held in 2 bytes.
EnumBytesDekuTest ==
    Enum("none", 16, << VariantId(48879, << Field("0", "u8") >>) >>)

\* The cond doctest's fields field_a..field_c on their own: a schema with
\* cond and default but no skipped field.
CondWithoutSkip ==
    Struct("none", SubSeq(CondDekuTest.fields, 1, 3))

\* The count doctest's schema with an update expression that reads the
\* field it assigns.
SelfUpdateSchema ==
    Struct("none",
        << [Field("count", "u8") EXCEPT !.update = "self.count + 1"],
           [Field("items", "Vec<u8>") EXCEPT !.count = "count"] >>)

\* The schema behind a type name.
SchemaOf(name) ==
    CASE name = "EndianDekuTest" -> EndianDekuTest
      [] name = "Child" -> Child
      [] name = "EndianCtxDekuTest" -> EndianCtxDekuTest
      [] name = "BitsDekuTest" -> BitsDekuTest
      [] name = "BytesDekuTest" -> BytesDekuTest
      [] name = "CountDekuTest" -> CountDekuTest
      [] name = "SkipDekuTest" -> SkipDekuTest
      [] name = "CondDekuTest" -> CondDekuTest
      [] name = "DefaultDekuTest" -> DefaultDekuTest
      [] name = "IdDekuTest" -> IdDekuTest
      [] name = "IdPatDekuTest" -> IdPatDekuTest
      [] name = "EnumBitsDekuTest" -> EnumBitsDekuTest
      [] name = "EnumBytesDekuTest" -> EnumBytesDekuTest
      [] name = "CondWithoutSkip" -> CondWithoutSkip
      [] name = "SelfUpdateSchema" -> SelfUpdateSchema

\* The schemas a caller decodes with.
TopSchemas ==
    {"EndianDekuTest", "EndianCtxDekuTest", "BitsDekuTest", "BytesDekuTest",
     "CountDekuTest", "SkipDekuTest", "CondDekuTest", "DefaultDekuTest",
     "IdDekuTest", "IdPatDekuTest", "EnumBitsDekuTest", "EnumBytesDekuTest",
     "CondWithoutSkip", "SelfUpdateSchema"}

\* The input each doctest decodes.
DocData(name) ==
    CASE name = "EndianDekuTest" -> <<171, 205, 171, 205>>
      [] name = "EndianCtxDekuTest" -> <<171, 205, 171, 205, 239, 190>>
      [] name = "BitsDekuTest" -> <<234, 255>>
      [] name = "BytesDekuTest" -> <<171, 205, 255>>
      [] name = "CountDekuTest" -> <<2, 171, 205>>
      [] name = "SkipDekuTest" -> <<1, 2>>
      [] name = "CondDekuTest" -> <<1, 2>>
      [] name = "DefaultDekuTest" -> <<1, 2>>
      [] name = "IdDekuTest" -> <<1, 255, 2, 171, 239, 190, 255>>
      [] name = "IdPatDekuTest" -> <<2>>
      [] name = "EnumBitsDekuTest" -> <<150, 255>>
      [] name = "EnumBytesDekuTest" -> <<239, 190, 255>>
      [] name = "CondWithoutSkip" -> <<1, 2>>
      [] name = "SelfUpdateSchema" -> <<2, 171, 205>>

\* ------------------------------------------- expressions attached to fields

\* cond = "*field_a == 0x01"
CondFieldAIsOne(scope) == scope.field_a = 1

\* cond = "*field_b == Some(0xFF)"
CondFieldBIsFF(scope) == scope.field_b = <<255>>

\* default = "Some(0x05)"
DefaultSomeFive(scope) == <<5>>

\* default = "Some(0x06)"
DefaultSomeSix(scope) == <<6>>

\* default = "Some(*field_a)"
DefaultSomeFieldA(scope) == <<scope.field_a>>

\* count = "count"
CountField(scope) == scope.count

\* self.items.len() - 1: a count that is one short.
UpdateItemsLenOffByOne(self) == Len(self.items) - 1

\* self.count + self.items.len(): a count that adds up instead of being
\* set.
UpdateItemsLenAccumulating(self) == self.count + Len(self.items)

\* update = "self.items.len()"
UpdateItemsLen(self) == Len(self.items)

\* update = "self.count + 1"
UpdateCountPlusOne(self) == self.count + 1

EvalCond(tag, scope) ==
    CASE tag = "*field_a == 0x01" -> CondFieldAIsOne(scope)
      [] tag = "*field_b == Some(0xFF)" -> CondFieldBIsFF(scope)

EvalDefault(tag, scope) ==
    CASE tag = "Some(0x05)" -> DefaultSomeFive(scope)
      [] tag = "Some(0x06)" -> DefaultSomeSix(scope)
      [] tag = "Some(*field_a)" -> DefaultSomeFieldA(scope)

EvalCount(tag, scope) ==
    CASE tag = "count" -> CountField(scope)

EvalUpdate(tag, self) ==
    CASE tag = "self.items.len()" -> UpdateItemsLen(self)
      [] tag = "self.count + 1" -> UpdateCountPlusOne(self)

\* The fields an update expression reads.
UpdateReads(tag) ==
    CASE tag = "self.items.len()" -> {"items"}
      [] tag = "self.count + 1" -> {"count"}

\* -------------------------------------------------------- Field Evaluator

\* The value with no field decoded yet.
EmptyValue == [n \in {} |-> 0]

\* Natural width of a scalar type, in bits.
NaturalBits(ty) ==
    CASE ty = "u8" -> 8
      [] ty = "u16" -> 16
      [] ty = "u32" -> 32
      [] ty = "Option<u8>" -> 8
      [] ty = "Vec<u8>" -> 8

\* Size of a field: its bits/bytes attribute, else the type's natural width.
WidthOf(f) == IF f.bits > 0 THEN f.bits ELSE NaturalBits(f.ty)

\* Byte order of a field: field > container top-level > platform default.
ResolveEndian(f, top, plat) ==
    IF f.endian # "none" THEN f.endian
    ELSE IF top # "none" THEN top
    ELSE plat

\* The endian a container forwards to a sub-type declaring the parameter.
ForwardedEndian(f, top) == IF f.endian # "none" THEN f.endian ELSE top

\* Top-level endian of a container entered with a forwarded context.
ContainerEndian(s, forwarded) ==
    IF s.endian = "ctx" THEN forwarded ELSE s.endian

\* The type's default value (Default::default()).
TypeDefault(ty) ==
    CASE ty = "Option<u8>" -> <<>>
      [] ty = "Vec<u8>" -> <<>>
      [] OTHER -> 0

\* skip, or skip paired with cond: the field is skipped when cond holds.
IsSkipped(f, scope) ==
    f.skip /\ (f.cond = "none" \/ EvalCond(f.cond, scope))

\* cond alone: the field is read only when cond holds.
IsAbsent(f, scope) ==
    ~f.skip /\ f.cond # "none" /\ ~EvalCond(f.cond, scope)

\* The value of a field that is not read from the stream.
DefaultValue(f, scope) ==
    IF f.default # "none" THEN EvalDefault(f.default, scope)
    ELSE TypeDefault(f.ty)

RECURSIVE ReadElements(_, _, _, _, _)
\* n elements of the given width read one after the other.
ReadElements(bits, p, n, width, endian) ==
    IF n = 0 THEN [ok |-> TRUE, v |-> <<>>, p |-> p, e |-> ""]
    ELSE LET r == ReadScalar(bits, p, width, endian)
         IN  IF ~r.ok THEN r
             ELSE LET more == ReadElements(bits, r.p, n - 1, width, endian)
                  IN  IF ~more.ok THEN more
                      ELSE [more EXCEPT !.v = <<r.v>> \o more.v]

RECURSIVE DecodeFields(_, _, _, _, _, _, _)
RECURSIVE DecodeField(_, _, _, _, _, _)

\* Decode of one field at bit offset p, given the fields decoded before it.
DecodeField(f, bits, p, scope, top, plat) ==
    IF IsSkipped(f, scope) \/ IsAbsent(f, scope)
    THEN [ok |-> TRUE, v |-> DefaultValue(f, scope), p |-> p, e |-> ""]
    ELSE CASE f.ty = "Option<u8>" ->
                LET r == ReadScalar(bits, p, WidthOf(f),
                                    ResolveEndian(f, top, plat))
                IN  IF r.ok THEN [r EXCEPT !.v = <<r.v>>] ELSE r
           [] f.ty = "Vec<u8>" ->
                ReadElements(bits, p, EvalCount(f.count, scope), WidthOf(f),
                             ResolveEndian(f, top, plat))
           [] f.ty = "Child" ->
                DecodeFields(SchemaOf(f.ty).fields, 1, bits, p, EmptyValue,
                             ContainerEndian(SchemaOf(f.ty),
                                             ForwardedEndian(f, top)), plat)
           [] OTHER ->
                ReadScalar(bits, p, WidthOf(f), ResolveEndian(f, top, plat))

\* Container decode from field i on: fields in order, each seeing the ones
\* before it; the first failure is returned as it is.
DecodeFields(fields, i, bits, p, scope, top, plat) ==
    IF i > Len(fields) THEN [ok |-> TRUE, v |-> scope, p |-> p, e |-> ""]
    ELSE LET r == DecodeField(fields[i], bits, p, scope, top, plat)
         IN  IF ~r.ok THEN r
             ELSE DecodeFields(fields, i + 1, bits, r.p,
                               scope @@ (fields[i].name :> r.v), top, plat)

RECURSIVE WriteElements(_, _, _)
\* Every element of a sequence written in order.
WriteElements(items, width, endian) ==
    IF items = <<>> THEN [ok |-> TRUE, bits |-> <<>>, e |-> ""]
    ELSE LET w == WriteScalar(items[1], width, endian)
             more == WriteElements(Tail(items), width, endian)
         IN  IF ~w.ok THEN w
             ELSE IF ~more.ok THEN more
             ELSE [more EXCEPT !.bits = w.bits \o more.bits]

RECURSIVE EncodeFields(_, _, _, _, _)
RECURSIVE EncodeField(_, _, _, _)

\* Encode of one field of the in-memory value `self`.  A skipped field writes
\* nothing; cond is not consulted otherwise: an Option writes its content
\* when it has one, whatever put it there.
EncodeField(f, self, top, plat) ==
    IF IsSkipped(f, self)
    THEN [ok |-> TRUE, bits |-> <<>>, e |-> ""]
    ELSE CASE f.ty = "Option<u8>" ->
                WriteElements(self[f.name], WidthOf(f),
                              ResolveEndian(f, top, plat))
           [] f.ty = "Vec<u8>" ->
                WriteElements(self[f.name], WidthOf(f),
                              ResolveEndian(f, top, plat))
           [] f.ty = "Child" ->
                EncodeFields(SchemaOf(f.ty).fields, 1, self[f.name],
                             ContainerEndian(SchemaOf(f.ty),
                                             ForwardedEndian(f, top)), plat)
           [] OTHER ->
                WriteScalar(self[f.name], WidthOf(f),
                            ResolveEndian(f, top, plat))

\* Container encode from field i on, in declaration order.
EncodeFields(fields, i, self, top, plat) ==
    IF i > Len(fields) THEN [ok |-> TRUE, bits |-> <<>>, e |-> ""]
    ELSE LET w == EncodeField(fields[i], self, top, plat)
             more == EncodeFields(fields, i + 1, self, top, plat)
         IN  IF ~w.ok THEN w
             ELSE IF ~more.ok THEN more
             ELSE [more EXCEPT !.bits = w.bits \o more.bits]

\* -------------------------------------------------------- Enum Dispatcher

RECURSIVE MatchFrom(_, _, _)
\* The first variant from index i on, in declaration order, that matches
\* the discriminant; 0 when none does.
MatchFrom(variants, i, d) ==
    IF i > Len(variants) THEN 0
    ELSE IF variants[i].catchall \/ d \in variants[i].ids THEN i
    ELSE MatchFrom(variants, i + 1, d)

MatchVariant(variants, d) == MatchFrom(variants, 1, d)

\* The discriminant encode emits for a value: the variant's id, or what the
\* variant's storing field holds.
DiscriminantOf(v, self) ==
    IF v.store # "" THEN self[v.store]
    ELSE CHOOSE id \in v.ids : TRUE

\* ----------------------------------------------------------- Update Engine

RECURSIVE UpdateFields(_, _, _)
\* One pass over the fields in order: each update expression is evaluated on
\* the value as it stands and assigned to its field; a result that does not
\* fit the field's type ends the pass with an error.
UpdateFields(fields, i, self) ==
    IF i > Len(fields) THEN [ok |-> TRUE, v |-> self]
    ELSE IF fields[i].update = "none" THEN UpdateFields(fields, i + 1, self)
    ELSE LET x == EvalUpdate(fields[i].update, self)
         IN  IF x >= 2 ^ NaturalBits(fields[i].ty)
             THEN [ok |-> FALSE, v |-> self]
             ELSE UpdateFields(fields, i + 1,
                               [self EXCEPT ![fields[i].name] = x])

\* A failed decode that hands back the fields decoded before the failure.
FailedValueKeepsPartial(partial) == partial

\* What a failed decode returns in place of a value.
FailedValue(partial) == EmptyValue

\* ------------------------------------------------------------ entry points

\* Every byte buffer of at most n bytes over ByteVals.
Buffers(n) == UNION {[1..k -> ByteVals] : k \in 0..n}

\* The schema in use and the field list of the value being handled.
TheSchema == SchemaOf(schema)

TheVariant == TheSchema.variants[variant]

TheFields ==
    IF TheSchema.kind = "struct" THEN TheSchema.fields ELSE TheVariant.fields

\* The field of the matched variant that stores the discriminant ("" if none).
TheStore == IF TheSchema.kind = "struct" THEN "" ELSE TheVariant.store

TheBits == BytesToBits(input)

\* The caller holds a buffer and is about to decode it from bit offset 0.
Init ==
    /\ schema \in TopSchemas
    /\ platform \in {"little", "big"}
    /\ input \in Buffers(MaxLen) \cup {DocData(schema)}
    /\ start = 0
    /\ pos = 0
    /\ pc = "ready"
    /\ fidx = 1
    /\ variant = 0
    /\ disc = <<>>
    /\ val = EmptyValue
    /\ rest = <<>>
    /\ err = ""
    /\ consumed = <<>>
    /\ out = <<>>
    /\ emitted = <<>>
    /\ outBytes = <<>>
    /\ lastOp = "none"
    /\ touched = FALSE
    /\ pushes = 0
    /\ updates = 0
    /\ records = 1

\* A decode call fails: no value, no position.
Fail(kind, partial) ==
    /\ pc' = "failed"
    /\ err' = kind
    /\ val' = FailedValue(partial)
    /\ rest' = <<>>

\* from_bytes on a struct: the container codec starts at the first field.
DecodeStartStruct ==
    /\ pc = "ready"
    /\ TheSchema.kind = "struct"
    /\ pc' = "decoding"
    /\ UNCHANGED <<schema, platform, input, start, pos, fidx, variant, disc,
                   val, rest, err, consumed, out, emitted, outBytes, lastOp,
                   touched, pushes, updates, records>>

\* from_bytes on an enum: the dispatcher reads the discriminant and picks the
\* variant; a variant that stores the discriminant receives it in its field.
DecodeStartEnum ==
    /\ pc = "ready"
    /\ TheSchema.kind = "enum"
    /\ LET r == ReadScalar(TheBits, pos, TheSchema.idbits,
                           ResolveEndian(Field("id", "u8"), TheSchema.endian,
                                         platform))
           m == MatchVariant(TheSchema.variants, r.v)
       IN  IF ~r.ok
           THEN /\ Fail(r.e, val)
                /\ UNCHANGED <<pos, variant, disc>>
           ELSE IF m = 0
           THEN /\ Fail("UnknownVariant", val)
                /\ disc' = <<r.v>>
                /\ UNCHANGED <<pos, variant>>
           ELSE /\ pc' = "decoding"
                /\ pos' = r.p
                /\ variant' = m
                /\ disc' = <<r.v>>
                /\ UNCHANGED <<val, rest, err>>
    /\ UNCHANGED <<schema, platform, input, start, fidx, consumed, out,
                   emitted, outBytes, lastOp, touched, pushes, updates,
                   records>>

\* The container codec evaluates the next field; after the last one decode
\* returns the value and the position after the last consumed bit.
DecodeStep ==
    /\ pc = "decoding"
    /\ LET f == TheFields[fidx]
           r == IF f.name = TheStore
                THEN [ok |-> TRUE, v |-> disc[1], p |-> pos, e |-> ""]
                ELSE DecodeField(f, TheBits, pos, val, TheSchema.endian,
                                 platform)
       IN  IF ~r.ok
           THEN /\ Fail(r.e, val)
                /\ UNCHANGED <<pos, fidx, consumed, lastOp>>
           ELSE /\ val' = val @@ (f.name :> r.v)
                /\ pos' = r.p
                /\ consumed' = Append(consumed, r.p - pos)
                /\ fidx' = fidx + 1
                /\ err' = ""
                /\ IF fidx = Len(TheFields)
                   THEN /\ pc' = "decoded"
                        /\ rest' = <<r.p>>
                        /\ lastOp' = "decode"
                   ELSE UNCHANGED <<pc, rest, lastOp>>
    /\ UNCHANGED <<schema, platform, input, start, variant, disc, out,
                   emitted, outBytes, touched, pushes, updates, records>>

\* The caller appends an element to the decoded value's sequence.
Push ==
    /\ pc = "decoded"
    /\ "items" \in DOMAIN val
    /\ pushes < MaxPush
    /\ \E b \in PushVals : val' = [val EXCEPT !.items = Append(@, b)]
    /\ pushes' = pushes + 1
    /\ updates' = 0
    /\ lastOp' = "push"
    /\ touched' = TRUE
    /\ UNCHANGED <<schema, platform, input, start, pos, pc, fidx, variant,
                   disc, rest, err, consumed, out, emitted, outBytes,
                   records>>

\* update(): the update pass over the value, in place.
Update ==
    /\ pc = "decoded"
    /\ updates < MaxUpdates
    /\ LET u == UpdateFields(TheFields, 1, val)
       IN  /\ val' = u.v
           /\ err' = IF u.ok THEN "" ELSE "UpdateError"
           /\ touched' = (touched \/ u.v # val)
    /\ lastOp' = "update"
    /\ updates' = updates + 1
    /\ UNCHANGED <<schema, platform, input, start, pos, pc, fidx, variant,
                   disc, rest, consumed, out, emitted, outBytes, pushes,
                   records>>

\* to_bytes starts: for an enum the dispatcher writes the discriminant.
EncodeStart ==
    /\ pc = "decoded"
    /\ pc' = "encoding"
    /\ fidx' = 1
    /\ emitted' = <<>>
    /\ outBytes' = <<>>
    /\ err' = ""
    /\ out' = IF TheSchema.kind = "enum"
              THEN WriteScalar(DiscriminantOf(TheVariant, val),
                               TheSchema.idbits,
                               ResolveEndian(Field("id", "u8"),
                                             TheSchema.endian, platform)).bits
              ELSE <<>>
    /\ UNCHANGED <<schema, platform, input, start, pos, variant, disc, val,
                   rest, consumed, lastOp, touched, pushes, updates,
                   records>>

\* The container codec writes the next field; after the last one encode
\* returns the bytes, the last one padded with zero bits.
EncodeStep ==
    /\ pc = "encoding"
    /\ LET f == TheFields[fidx]
           w == IF f.name = TheStore
                THEN [ok |-> TRUE, bits |-> <<>>, e |-> ""]
                ELSE EncodeField(f, val, TheSchema.endian, platform)
       IN  IF ~w.ok
           THEN /\ pc' = "failed"
                /\ err' = w.e
                /\ out' = <<>>
                /\ UNCHANGED <<fidx, emitted, outBytes>>
           ELSE /\ out' = out \o w.bits
                /\ emitted' = Append(emitted, Len(w.bits))
                /\ fidx' = fidx + 1
                /\ err' = ""
                /\ IF fidx = Len(TheFields)
                   THEN /\ pc' = "encoded"
                        /\ outBytes' = BitsToBytes(out \o w.bits)
                   ELSE UNCHANGED <<pc, outBytes>>
    /\ UNCHANGED <<schema, platform, input, start, pos, variant, disc, val,
                   rest, consumed, lastOp, touched, pushes, updates, records>>

\* The caller decodes the next record from the position the last decode
\* returned.
NextRecord ==
    /\ pc = "encoded"
    /\ rest # <<>>
    /\ rest[1] < Len(TheBits)
    /\ records < MaxRecords
    /\ pc' = "ready"
    /\ start' = rest[1]
    /\ pos' = rest[1]
    /\ fidx' = 1
    /\ variant' = 0
    /\ disc' = <<>>
    /\ val' = EmptyValue
    /\ rest' = <<>>
    /\ err' = ""
    /\ consumed' = <<>>
    /\ out' = <<>>
    /\ emitted' = <<>>
    /\ outBytes' = <<>>
    /\ lastOp' = "none"
    /\ touched' = FALSE
    /\ pushes' = 0
    /\ updates' = 0
    /\ records' = records + 1
    /\ UNCHANGED <<schema, platform, input>>

Next ==
    \/ DecodeStartStruct
    \/ DecodeStartEnum
    \/ DecodeStep
    \/ Push
    \/ Update
    \/ EncodeStart
    \/ EncodeStep
    \/ NextRecord

Spec == Init /\ [][Next]_vars

\* ------------------------------------------------------ terms of the claims

\* A decode call has returned a value that is still at hand.
HasValue == pc \in {"decoded", "encoding", "encoded"}

\* The first decode call of the doctest of schema `name`, on its own input.
DocRun(name) == schema = name /\ input = DocData(name) /\ records = 1

\* A later decode call of the doctest, resumed at the returned position.
DocRecord(name, n) == schema = name /\ input = DocData(name) /\ records = n

\* The bytes of the buffer the current decode call consumed.
ConsumedBytes == SubSeq(input, (start \div 8) + 1, rest[1] \div 8)

\* Every field of a schema, those of its variants included.
AllFields(s) ==
    {s.fields[i] : i \in 1..Len(s.fields)} \cup
    UNION {{s.variants[j].fields[i] : i \in 1..Len(s.variants[j].fields)} :
            j \in 1..Len(s.variants)}

\* No field of the schema is skipped (no schema here uses map).
NoSkipOrMap(s) == \A f \in AllFields(s) : ~f.skip

\* No field of the schema pairs cond with a default.
NoCondDefault(s) ==
    \A f \in AllFields(s) : f.cond = "none" \/ f.default = "none"

\* The value obtained by decoding, encoded without a change in between.
EncodedAsDecoded == pc = "encoded" /\ ~touched

\* ------------------------------------------------ agreement with the doctests

\* The byte order the doctests' unannotated fields are asserted in.
DocTarget == platform = "little"

\* Every doctest modelled decodes to the value it asserts and, where it
\* asserts the bytes written, encodes to them.
DoctestsAgree ==
    /\ (DocRun("EndianDekuTest") /\ HasValue /\ DocTarget) =>
           /\ val = [field_be |-> 43981, field_default |-> 52651]
           /\ pc = "encoded" => outBytes = input
    /\ (DocRun("EndianCtxDekuTest") /\ HasValue /\ DocTarget) =>
           /\ val = [field_be |-> 43981, field_default |-> 52651,
                     field_child |-> [field_a |-> 48879]]
           /\ pc = "encoded" => outBytes = input
    /\ (DocRun("BitsDekuTest") /\ HasValue) =>
           /\ val = [field_a |-> 3, field_b |-> 42, field_c |-> 255]
           /\ pc = "encoded" => outBytes = input
    /\ (DocRun("BytesDekuTest") /\ HasValue /\ DocTarget) =>
           /\ val = [field_a |-> 52651, field_b |-> 255]
           /\ pc = "encoded" => outBytes = input
    /\ (DocRun("CountDekuTest") /\ HasValue /\ ~touched) =>
           /\ val = [count |-> 2, items |-> <<171, 205>>]
           /\ pc = "encoded" => outBytes = input
    /\ (DocRun("SkipDekuTest") /\ HasValue) =>
           val = [field_a |-> 1, field_b |-> <<>>, field_c |-> 2]
    /\ (DocRun("CondDekuTest") /\ HasValue) =>
           /\ val = [field_a |-> 1, field_b |-> <<2>>, field_c |-> <<5>>,
                     field_d |-> <<6>>]
           /\ pc = "encoded" => outBytes = <<1, 2, 5>>
    /\ (DocRun("DefaultDekuTest") /\ HasValue) =>
           val = [field_a |-> 1, field_b |-> <<1>>, field_c |-> 2]
    /\ (DocRun("IdPatDekuTest") /\ HasValue) =>
           /\ variant = 2 /\ val = [id |-> 2]
           /\ pc = "encoded" => outBytes = input
    /\ (DocRun("EnumBitsDekuTest") /\ HasValue) =>
           /\ variant = 1 /\ val = ("0" :> 6) @@ ("1" :> 255)
           /\ pc = "encoded" => outBytes = input
    /\ (DocRun("EnumBytesDekuTest") /\ HasValue /\ DocTarget) =>
           /\ variant = 1 /\ val = ("0" :> 255)
           /\ pc = "encoded" => outBytes = input
    /\ \A name \in TopSchemas :
           (DocRun(name) /\ DocTarget) => pc # "failed"

\* ---------------------------------------------------------------------- C1

CondFalseWritten ==
    IF pc \in {"encoding", "encoded"}
    THEN {i \in 1..Len(emitted) :
            /\ ~TheFields[i].skip
            /\ TheFields[i].cond # "none"
            /\ ~EvalCond(TheFields[i].cond, val)}
    ELSE {}

\* C2 as stated: on encode, a field not skipped whose cond is false emits
\* zero bits.
C2_CondFalseEmitsNothing == \A i \in CondFalseWritten : emitted[i] = 0

\* C2 amended: on encode, a field not skipped whose cond is false emits its
\* in-memory value when it has one (8 bits for Some) and zero bits only when
\* the value is absent (None); the cond doctest encodes to [0x01,0x02,0x05].
C2_CondFalseEmitsValueIfPresent ==
    /\ \A i \in CondFalseWritten :
           emitted[i] = 8 * Len(val[TheFields[i].name])
    /\ (DocRun("CondDekuTest") /\ HasValue /\ ~touched)
           => val = [field_a |-> 1, field_b |-> <<2>>, field_c |-> <<5>>,
                     field_d |-> <<6>>]
    /\ (DocRun("CondDekuTest") /\ EncodedAsDecoded)
           => outBytes = <<1, 2, 5>>

\* C2 witness: the cond doctest encoded: field_c, whose cond is false, put
\* its default 0x05 on the output.
C2_Witness ==
    /\ DocRun("CondDekuTest") /\ EncodedAsDecoded
    /\ 3 \in CondFalseWritten
    /\ emitted[3] = 8
    /\ outBytes = <<1, 2, 5>>

\* ---------------------------------------------------------------------- C3

\* The fields of the current decode call evaluated so far that are marked
\* both skip and cond.
SkipCondDecoded ==
    IF pc \in {"decoding", "decoded", "encoding", "encoded"}
    THEN {i \in 1..Len(consumed) :
            TheFields[i].skip /\ TheFields[i].cond # "none"}
    ELSE {}

\* C3 as stated: a field marked both skip and cond consumes zero bits, emits
\* zero bits and holds its default, whatever its cond evaluates to.
C3_SkipBeatsCond ==
    \A i \in SkipCondDecoded :
        /\ consumed[i] = 0
        /\ ~touched => val[TheFields[i].name] = DefaultValue(TheFields[i], val)
        /\ (pc \in {"encoding", "encoded"} /\ i <= Len(emitted))
               => emitted[i] = 0

\* C3 amended: a field marked both skip and cond is skipped exactly when its
\* cond is true: field_d of the cond doctest (skip, cond field_a == 0x01,
\* default Some(0x06)) consumes and emits nothing and holds Some(0x06) when
\* field_a is 0x01, and is read from and written to the stream as one byte
\* when field_a is anything else.
C3_SkipWhenCondTrue ==
    (schema = "CondDekuTest" /\ HasValue /\ ~touched) =>
        /\ val.field_a = 1 =>
              /\ consumed[4] = 0
              /\ val.field_d = <<6>>
              /\ Len(emitted) >= 4 => emitted[4] = 0
        /\ val.field_a # 1 =>
              /\ consumed[4] = 8
              /\ val.field_d = <<input[rest[1] \div 8]>>
              /\ Len(emitted) >= 4 => emitted[4] = 8

\* C3 witness: field_a is not 0x01, so field_d was read from the stream and
\* written back.
C3_Witness ==
    /\ schema = "CondDekuTest" /\ EncodedAsDecoded
    /\ val.field_a = 2
    /\ val.field_d = <<171>>
    /\ consumed[4] = 8
    /\ emitted[4] = 8

\* ---------------------------------------------------------------------- C4

\* Variant j of the schema in use accepts discriminant d.
Accepts(j, d) ==
    TheSchema.variants[j].catchall \/ d \in TheSchema.variants[j].ids

\* C4: enum decode dispatches to the first variant in declaration order that
\* accepts the discriminant, and fails with UnknownVariant exactly when none
\* does; each decode of the id doctest's stream resumes where the previous
\* one ended and yields A(0xFF), then B(0xAB, 0xBEEF) (the u16 in the
\* target's byte order: 0xEFBE on a big-endian one), then the catch-all, each
\* encoding back to its own bytes.
C4_FirstMatchAndSequentialRecords ==
    /\ (TheSchema.kind = "enum" /\ variant # 0) =>
           /\ Accepts(variant, disc[1])
           /\ \A j \in 1..(variant - 1) : ~Accepts(j, disc[1])
    /\ (TheSchema.kind = "enum" /\ err = "UnknownVariant") =>
           /\ pc = "failed"
           /\ \A j \in 1..Len(TheSchema.variants) : ~Accepts(j, disc[1])
    /\ (DocRecord("IdDekuTest", 1) /\ HasValue) =>
           /\ variant = 1 /\ val = ("0" :> 255) /\ rest = <<16>>
           /\ pc = "encoded" => outBytes = <<1, 255>>
    /\ (DocRecord("IdDekuTest", 2) /\ HasValue) =>
           /\ start = 16 /\ variant = 2 /\ rest = <<48>>
           /\ val = ("0" :> 171) @@
                    ("1" :> IF platform = "little" THEN 48879 ELSE 61374)
           /\ pc = "encoded" => outBytes = <<2, 171, 239, 190>>
    /\ (DocRecord("IdDekuTest", 3) /\ HasValue) =>
           /\ start = 48 /\ variant = 3 /\ rest = <<56>>
           /\ val = [type_ |-> 255]
           /\ pc = "encoded" => outBytes = <<255>>

\* C4 witness: the second record of the id doctest, decoded from the position
\* the first decode returned, and encoded.
C4_Witness ==
    /\ DocRecord("IdDekuTest", 2) /\ pc = "encoded" /\ platform = "little"
    /\ start = 16
    /\ variant = 2
    /\ val["1"] = 48879
    /\ outBytes = <<2, 171, 239, 190>>

\* ---------------------------------------------------------------------- C5

\* The matched variant has a field that stores the discriminant.
StoresDiscriminant == TheSchema.kind = "enum" /\ variant # 0 /\ TheStore # ""

\* C5: for a pattern or catch-all variant with a field that carries the
\* discriminant, decode stores the discriminant d in that field at no cost in
\* bits and encode emits d once, from that field: the single byte [d] decodes
\* whole to the variant holding d and encodes back to [d]; the id_pat
\* doctest's [0x02] gives VariantB{id: 0x02}, and [0xFF] under the id doctest
\* gives VariantCatchAll{type_: 0xFF}.
C5_StoredDiscriminantRoundTrip ==
    /\ (StoresDiscriminant /\ HasValue /\ ~touched) =>
           /\ val[TheStore] = disc[1]
           /\ \A i \in 1..Len(TheFields) :
                  TheFields[i].name = TheStore => consumed[i] = 0
           /\ pc = "encoded" =>
                  /\ SubSeq(out, 1, TheSchema.idbits)
                         = SubSeq(TheBits, start + 1, start + TheSchema.idbits)
                  /\ outBytes = ConsumedBytes
    /\ (schema = "IdPatDekuTest" /\ Len(input) = 1 /\ input[1] \in 2..6) =>
           /\ pc # "failed"
           /\ HasValue =>
                  variant = 2 /\ val = [id |-> input[1]] /\ rest = <<8>>
           /\ pc = "encoded" => outBytes = input
    /\ (schema = "IdDekuTest" /\ input = <<255>>) =>
           /\ pc # "failed"
           /\ HasValue => variant = 3 /\ val = [type_ |-> 255] /\ rest = <<8>>
           /\ pc = "encoded" => outBytes = input

\* C5 witness: the id_pat doctest: [0x02] decoded to VariantB{id: 0x02} and
\* encoded back to [0x02].
C5_Witness ==
    /\ DocRun("IdPatDekuTest") /\ pc = "encoded"
    /\ variant = 2
    /\ val = [id |-> 2]
    /\ rest = <<8>>
    /\ outBytes = <<2>>

\* ---------------------------------------------------------------------- C6

\* C6: with {count: u8, update = len(items); items, count = count}, decode
\* reads exactly `count` elements; after any change to items followed by
\* update, count is the number of elements; encode emits the count byte and
\* then every element in order; the doctest's [0x02,0xAB,0xCD], with 0xFF
\* pushed and update called, encodes to [0x03,0xAB,0xCD,0xFF].
C6_CountDrivenSequence ==
    schema = "CountDekuTest" =>
        /\ (HasValue /\ ~touched) =>
               /\ Len(val.items) = val.count
               /\ val.count = input[(start \div 8) + 1]
               /\ consumed = <<8, 8 * val.count>>
               /\ val.items = SubSeq(input, (start \div 8) + 2, rest[1] \div 8)
        /\ (HasValue /\ lastOp = "update") => val.count = Len(val.items)
        /\ pc = "encoded" => outBytes = <<val.count>> \o val.items
        /\ (DocRun("CountDekuTest") /\ HasValue /\ pushes = 1
              /\ lastOp = "update") =>
               /\ val = [count |-> 3, items |-> <<171, 205, 255>>]
               /\ pc = "encoded" => outBytes = <<3, 171, 205, 255>>

\* C6 witness: the update doctest: decoded, 0xFF pushed, updated, encoded.
C6_Witness ==
    /\ DocRun("CountDekuTest") /\ pc = "encoded"
    /\ pushes = 1 /\ lastOp = "update"
    /\ val = [count |-> 3, items |-> <<171, 205, 255>>]
    /\ outBytes = <<3, 171, 205, 255>>

\* ---------------------------------------------------------------------- C7

\* update() is called on a value that update() was the last to change.
UpdateAgain == updates >= 1 /\ updates' = updates + 1

\* The names of the fields of a schema that carry an update expression.
UpdatedFields(s) ==
    {s.fields[i].name : i \in {k \in 1..Len(s.fields) :
                                 s.fields[k].update # "none"}}

\* Every update expression of the schema reads only fields that no update
\* expression assigns.
UpdatesReadPlainFields(s) ==
    \A i \in 1..Len(s.fields) :
        s.fields[i].update # "none" =>
            UpdateReads(s.fields[i].update) \cap UpdatedFields(s) = {}

\* C7 as stated: for any schema's update expressions, a second update with
\* no change in between leaves every field as the first one left it.
C7_UpdateIdempotent == [][UpdateAgain => val' = val]_vars

\* C7 amended: update is idempotent when every update expression reads only
\* fields that carry no update expression (as count = len(items) does): a
\* second update with no change in between leaves every field as it was.
C7_UpdateIdempotentOnPlainFields ==
    [][(UpdateAgain /\ UpdatesReadPlainFields(TheSchema)) => val' = val]_vars

\* C7 witness: the update doctest's value after a push and two updates: the
\* count is 3, as after the first of them.
C7_Witness ==
    /\ DocRun("CountDekuTest") /\ pc = "decoded"
    /\ pushes = 1 /\ updates = 2 /\ lastOp = "update"
    /\ val = [count |-> 3, items |-> <<171, 205, 255>>]

\* ---------------------------------------------------------------------- C8

\* The width a field's declaration gives it: bits/bytes, else its type's.
DeclaredBits(f) ==
    IF f.bits > 0 THEN f.bits
    ELSE IF f.ty = "u16" THEN 16 ELSE IF f.ty = "u32" THEN 32 ELSE 8

RECURSIVE DeclaredBitsUpTo(_, _)
\* The sum of the declared widths of the first k fields.
DeclaredBitsUpTo(fields, k) ==
    IF k = 0 THEN 0
    ELSE DeclaredBitsUpTo(fields, k - 1) + DeclaredBits(fields[k])

\* Schemas all of whose fields are scalars of a fixed width.
FixedWidthSchemas ==
    {"EndianDekuTest", "BitsDekuTest", "BytesDekuTest", "IdDekuTest",
     "EnumBitsDekuTest", "EnumBytesDekuTest"}

\* The byte of the buffer at which the current decode call began.
FirstByte == (start \div 8) + 1

\* C8: fields are packed MSB-first with no alignment between them: after k
\* fields the cursor stands exactly the sum of their widths past where the
\* fields began, each field having consumed its own width; fields of 2, 6 and
\* 8 bits are the top 2 bits, the low 6 bits and the next byte (0b11_101010,
\* 0xFF gives 0b11, 0b101010, 0xFF), a 4-bit discriminant and a 4-bit field
\* share one byte, and both encode back to the bytes they came from.
C8_PackedWithoutAlignment ==
    /\ (schema \in FixedWidthSchemas /\ pc \in {"decoding", "decoded"}
          /\ ~StoresDiscriminant) =>
           /\ pos = start + TheSchema.idbits
                      + DeclaredBitsUpTo(TheFields, Len(consumed))
           /\ \A i \in 1..Len(consumed) :
                  consumed[i] = DeclaredBits(TheFields[i])
    /\ (schema = "BitsDekuTest" /\ HasValue) =>
           /\ val = [field_a |-> input[FirstByte] \div 64,
                     field_b |-> input[FirstByte] % 64,
                     field_c |-> input[FirstByte + 1]]
           /\ consumed = <<2, 6, 8>>
           /\ pc = "encoded" => outBytes = ConsumedBytes
    /\ (DocRun("BitsDekuTest") /\ HasValue) =>
           val = [field_a |-> 3, field_b |-> 42, field_c |-> 255]
    /\ (schema = "EnumBitsDekuTest" /\ HasValue) =>
           /\ disc = <<input[FirstByte] \div 16>>
           /\ val = ("0" :> input[FirstByte] % 16) @@
                    ("1" :> input[FirstByte + 1])
           /\ consumed = <<4, 8>>
           /\ pc = "encoded" => outBytes = ConsumedBytes
    /\ (DocRun("EnumBitsDekuTest") /\ HasValue) =>
           /\ variant = 1 /\ val = ("0" :> 6) @@ ("1" :> 255)
           /\ pc = "encoded" => outBytes = <<150, 255>>

\* C8 witness: the bits doctest decoded field by field and encoded back.
C8_Witness ==
    /\ DocRun("BitsDekuTest") /\ pc = "encoded"
    /\ val = [field_a |-> 3, field_b |-> 42, field_c |-> 255]
    /\ consumed = <<2, 6, 8>>
    /\ outBytes = <<234, 255>>

\* ---------------------------------------------------------------------- C9

\* The u16 held in bytes i and i+1 of the buffer, in the given byte order.
U16At(i, order) ==
    IF order = "big" THEN 256 * input[i] + input[i + 1]
    ELSE 256 * input[i + 1] + input[i]

\* C9: a multi-byte field takes its field-level endian, else the container's
\* top-level endian, else the target's: field_be is big-endian on every
\* target, an unannotated field is in the target's order without a
\* top-level endian and little-endian under top-level little; the top-level
\* endian reaches the sub-type that declares the endian parameter, whose
\* field is little-endian on every target; encode writes the same orders.
C9_EndianResolution ==
    /\ (schema = "EndianDekuTest" /\ HasValue) =>
           /\ val = [field_be |-> U16At(FirstByte, "big"),
                     field_default |-> U16At(FirstByte + 2, platform)]
           /\ pc = "encoded" => outBytes = ConsumedBytes
    /\ (schema = "EndianCtxDekuTest" /\ HasValue) =>
           /\ val = [field_be |-> U16At(FirstByte, "big"),
                     field_default |-> U16At(FirstByte + 2, "little"),
                     field_child |->
                         [field_a |-> U16At(FirstByte + 4, "little")]]
           /\ pc = "encoded" => outBytes = ConsumedBytes
    /\ (DocRun("EndianCtxDekuTest") /\ HasValue) =>
           val = [field_be |-> 43981, field_default |-> 52651,
                  field_child |-> [field_a |-> 48879]]

\* C9 witness: the sub-type doctest on a big-endian target: the unannotated
\* field and the sub-type's field are little-endian all the same.
C9_Witness ==
    /\ DocRun("EndianCtxDekuTest") /\ pc = "encoded" /\ platform = "big"
    /\ val.field_default = 52651
    /\ val.field_child.field_a = 48879
    /\ outBytes = <<171, 205, 171, 205, 239, 190>>

\* --------------------------------------------------------------------- C10

\* C10: a decode call that meets a field (or a discriminant) needing more
\* bits than remain fails there with InsufficientData: it returns no value,
\* not even the fields already decoded, and no position; the fields before
\* the failing one were evaluated, none after it, and the call does nothing
\* further.
C10_DecodeFailureIsAtomic ==
    (pc = "failed" /\ err = "InsufficientData") =>
        /\ val = EmptyValue
        /\ rest = <<>>
        /\ outBytes = <<>>
        /\ Len(consumed) = fidx - 1
        /\ (variant # 0 \/ TheSchema.kind = "struct") =>
               /\ fidx <= Len(TheFields)
               /\ TheFields[fidx].ty \in {"u8", "u16", "u32", "Option<u8>"}
                      => pos + DeclaredBits(TheFields[fidx]) > Len(TheBits)
        /\ (variant = 0 /\ TheSchema.kind = "enum") =>
               pos + TheSchema.idbits > Len(TheBits)
        /\ ~ENABLED Next

\* C10 witness: the bits schema on a single byte: the 2-bit and 6-bit fields
\* were decoded, the 8-bit field found no bits left, nothing was returned.
C10_Witness ==
    /\ schema = "BitsDekuTest" /\ input = <<171>>
    /\ pc = "failed" /\ err = "InsufficientData"
    /\ fidx = 3
    /\ consumed = <<2, 6>>
    /\ val = EmptyValue
    /\ rest = <<>>

====
